---- MODULE Spec2Model ----
(***************************************************************************)
(* Model of eth_kdj_trader.py: the main thread (configuration, listener    *)
(* thread start, the 15-minute poll loop with its decision rule) and the   *)
(* websocket listener thread (WebSocketApp callbacks and the reconnect in  *)
(* on_close).  One action per step of either thread; the two threads       *)
(* interleave freely.                                                      *)
(***************************************************************************)
EXTENDS Integers, Sequences, FiniteSets, TLC

\* ---------------------------------------------------------------- bounds
\* longest per-connection log of handshake events that is recorded
MaxLog == 3
\* disconnections of the listener that are followed
MaxDisconnects == 2
\* days the clock advances after startup
MaxDay == 1

\* ----------------------------------------------------- program constants
KBuy == 20
KSell == 80
initial_cash == 200000
ShortBackoff == 60
PollInterval == 900
KdjLength == 9
KdjSignal == 3
WindowDays == 30

symbol == "ETH/USDC"

\* ------------------------------------------------------ input domains
\* outcomes of load_config
ConfigOutcomes == {"ok", "nofile", "nosection", "nokey"}
\* float(account.buying_power) as read by a cycle, or a failed read
BuyingPowers == {1000, 2500}
AccountOutcomes == BuyingPowers \cup {-1}
\* number of bars delivered by get_crypto_bars: -1 the call raised, 0 empty
FetchOutcomes == {-1, 0, 8, 9, 11, 12}
\* columns delivered by ta.kdj
LibOutcomes == {"kdj_cols", "other_cols"}
\* latest K_9 of a computed series
KValues == {15, 20, 50, 80, 85}
\* api.list_positions(): answered, APIError 404, APIError other, other exception
QueryOutcomes == {"ok", "err404", "apierr", "exc"}
\* api.get_latest_crypto_quotes([symbol])
QuoteOutcomes == {"quote", "missing", "exc"}
\* api.submit_order
SubmitOutcomes == {"accepted", "raised"}
\* api.close_position
CloseOutcomes == {"closed", "notexist", "apierr", "exc"}

NoNotional == -1
\* K_9 of a row inside the warm-up of the indicator
NaN == -2

VARIABLES
  pc,                \* position of the main thread
  exitCode,          \* status passed to exit(), -1 while running
  buying_power,      \* local of the poll loop
  nbars,             \* rows of the fetched bar frame
  latest_kdj,        \* K_9 of kdj.iloc[-1]
  current_position,  \* "None" or "Position"
  qres,              \* outcome of this cycle's list_positions call
  pos,               \* the exchange holds an open position for symbol
  orders,            \* order calls made to the exchange in this cycle
  signal,            \* what the decision rule logged in this cycle
  quote,             \* outcome of this cycle's latest-quote request
  slept,             \* length of the time.sleep that ended the last cycle
  config,            \* outcome of load_config
  api_called,        \* an exchange call has been made
  lib,               \* columns ta.kdj delivered in this cycle
  kdj_len,           \* len(kdj) of this cycle
  apiRes,            \* the exchange's answer to this cycle's order call
  callRet,           \* return value of place_order / close_position
  opened,            \* the open position comes from an accepted buy
  today,             \* datetime.now().date(), in days since startup
  end_date,          \* set once before the loop
  start_date,        \* set once before the loop
  lstate,            \* listener thread / connection state
  loop_running,      \* an asyncio event loop is running in the listener thread
  conns,             \* WebSocketApp connections live or being established
  disconnects,       \* on_close invocations
  reconnects,        \* reconnect calls made by on_close
  connLog,           \* handshake events of the current connection
  hres,              \* how the last on_message call ended
  closeWhy           \* why the last connection ended

pollVars == <<pc, exitCode, buying_power, nbars, latest_kdj, current_position,
              qres, pos, orders, signal, quote, slept, config, api_called, lib,
              kdj_len, apiRes, callRet, opened, today, end_date, start_date>>
wsVars == <<lstate, loop_running, conns, disconnects, reconnects, connLog, hres,
            closeWhy>>
vars == <<pc, exitCode, buying_power, nbars, latest_kdj, current_position,
          qres, pos, orders, signal, quote, slept, config, api_called, lib,
          kdj_len, apiRes, callRet, opened, today, end_date, start_date,
          lstate, loop_running, conns, disconnects, reconnects, connLog, hres,
          closeWhy>>

\* ------------------------------------------------------------ pure parts

\* the required keys not checked
load_config_lenient(cfg) == cfg \in {"ok", "nokey"}

\* load_config: TRUE when it returns, FALSE when it raises
load_config(cfg) == cfg = "ok"

\* fetch_15min_data: number of rows returned, 0 standing for None
fetch_15min_data(n) == IF n <= 0 THEN 0 ELSE n

\* a frame of every length, the warm-up rows included
calculate_kdj_partial(n, l) ==
  IF l = "kdj_cols" THEN n ELSE 0

\* calculate_kdj: length of the returned frame, 0 for pd.DataFrame()
calculate_kdj(n, l) ==
  IF n < KdjLength THEN 0          \* ta.kdj gives None, .columns raises
  ELSE IF l = "kdj_cols" THEN n
  ELSE 0

\* rows of an n-row result whose K_9 is a number: ta.kdj takes a rolling
\* window of 9 bars and smooths it with min_periods = 3
kdj_valid(n) ==
  IF n >= KdjLength + KdjSignal - 1 THEN n - (KdjLength + KdjSignal - 2) ELSE 0

\* the values kdj.iloc[-1]['K_9'] can take for an n-row result
latest_values(n) == IF kdj_valid(n) >= 1 THEN KValues ELSE {NaN}

\* a comparison that orders NaN like a number
Lt_plain(a, b) == a < b

\* float comparisons: every comparison with NaN is false
Lt(a, b) == a # NaN /\ a < b
Gt(a, b) == a # NaN /\ a > b

\* the rule without its position conditions
decision_ignores_position(k, cp) ==
  IF Lt(k, KBuy) THEN "ENTER"
  ELSE IF Gt(k, KSell) THEN "EXIT"
  ELSE "HOLD"

\* the rule with inclusive thresholds
decision_inclusive(k, cp) ==
  IF (Lt(k, KBuy) \/ k = KBuy) /\ cp = "None" THEN "ENTER"
  ELSE IF (Gt(k, KSell) \/ k = KSell) /\ cp # "None" THEN "EXIT"
  ELSE "HOLD"

\* the if / elif / else of the poll loop
decision(k, cp) ==
  IF Lt(k, KBuy) /\ cp = "None" THEN "ENTER"
  ELSE IF Gt(k, KSell) /\ cp # "None" THEN "EXIT"
  ELSE "HOLD"

\* the order sized by the configured cash instead of the account's
order_notional_initial_cash(bp) == initial_cash

\* notional passed to submit_order
order_notional(bp) == bp

\* a failed submission submitted a second time
place_order_retry(bp, side, q, s) ==
  IF q # "quote" THEN [submitted |-> <<>>, ret |-> FALSE]
  ELSE IF side = "buy"
       THEN [submitted |->
               IF s = "accepted"
               THEN <<[op |-> "buy", notional |-> order_notional(bp)]>>
               ELSE <<[op |-> "buy", notional |-> order_notional(bp)],
                      [op |-> "buy", notional |-> order_notional(bp)]>>,
             ret |-> (s = "accepted")]
       ELSE [submitted |-> <<>>, ret |-> FALSE]

\* place_order: the submit_order calls it makes and its return value
place_order(bp, side, q, s) ==
  IF q # "quote" THEN [submitted |-> <<>>, ret |-> FALSE]
  ELSE IF side = "buy"
       THEN [submitted |-> <<[op |-> "buy", notional |-> order_notional(bp)]>>,
             ret |-> (s = "accepted")]
       ELSE [submitted |-> <<>>, ret |-> FALSE]

\* a 404 'position does not exist' reported as a failure
close_position_strict(c) ==
  [submitted |-> <<[op |-> "close", notional |-> NoNotional]>>,
   ret |-> (c = "closed")]

\* close_position: the api.close_position(symbol) calls it makes (no quantity
\* or percentage is passed: the whole position) and its return value
close_position(c) ==
  [submitted |-> <<[op |-> "close", notional |-> NoNotional]>>,
   ret |-> (c \in {"closed", "notexist"})]

\* the call of the ENTER branch
enter_order(bp, q, s) == place_order(bp, "buy", q, s)

\* the EXIT branch going through place_order's unimplemented 'sell' side
exit_order_sell(c) == place_order(0, "sell", "quote", "accepted")

\* the call of the EXIT branch
exit_order(c) == close_position(c)

\* value of current_position after the try/except around list_positions
position_lookup(r, held) ==
  IF r = "ok" /\ held THEN "Position" ELSE "None"

\* ------------------------------------------------------------ main thread

Startup ==
  /\ pc = "start"
  /\ \E cfg \in ConfigOutcomes :
       /\ config' = cfg
       /\ IF load_config(cfg)
          THEN pc' = "thread_start" /\ exitCode' = exitCode
          ELSE pc' = "exited" /\ exitCode' = 1
  /\ UNCHANGED <<buying_power, nbars, latest_kdj, current_position, qres, pos,
                 orders, signal, quote, slept, api_called, lib, kdj_len,
                 apiRes, callRet, opened, today, end_date, start_date>>
  /\ UNCHANGED wsVars

\* threading.Thread(...).start(); the thread runs asyncio.run(websocket_stream);
\* then end_date and start_date are set, once, before the loop
StartListener ==
  /\ pc = "thread_start"
  /\ \E started \in BOOLEAN :
       IF started
       THEN /\ pc' = "account"
            /\ exitCode' = exitCode
            /\ lstate' = "CONNECTING"
            /\ loop_running' = TRUE
            /\ conns' = 1
            /\ end_date' = today
            /\ start_date' = today - WindowDays
       ELSE /\ pc' = "exited"
            /\ exitCode' = 1
            /\ UNCHANGED <<lstate, loop_running, conns, end_date, start_date>>
  /\ UNCHANGED <<buying_power, nbars, latest_kdj, current_position, qres, pos,
                 orders, signal, quote, slept, config, api_called, lib,
                 kdj_len, apiRes, callRet, opened, today>>
  /\ UNCHANGED <<disconnects, reconnects, connLog, hres, closeWhy>>

\* the account read failing ends the process instead of the cycle
GetAccount_fatal ==
  /\ pc = "account"
  /\ api_called' = TRUE
  /\ slept' = 0
  /\ \E a \in AccountOutcomes :
       IF a < 0
       THEN pc' = "exited" /\ exitCode' = 1 /\ UNCHANGED buying_power
       ELSE pc' = "fetch" /\ exitCode' = exitCode /\ buying_power' = a
  /\ UNCHANGED <<nbars, latest_kdj, current_position, qres, pos,
                 orders, signal, quote, config, lib, kdj_len, apiRes,
                 callRet, opened, today, end_date, start_date>>
  /\ UNCHANGED wsVars

\* api.get_account() and float(account.buying_power); a raise goes to the
\* except at the loop boundary
GetAccount ==
  /\ pc = "account"
  /\ api_called' = TRUE
  /\ slept' = 0
  /\ \E a \in AccountOutcomes :
       IF a < 0
       THEN pc' = "sleep60" /\ UNCHANGED buying_power
       ELSE pc' = "fetch" /\ buying_power' = a
  /\ UNCHANGED <<exitCode, nbars, latest_kdj, current_position, qres, pos,
                 orders, signal, quote, config, lib, kdj_len, apiRes,
                 callRet, opened, today, end_date, start_date>>
  /\ UNCHANGED wsVars

\* fetch_15min_data(api, symbol, start_date, end_date)
FetchData ==
  /\ pc = "fetch"
  /\ \E n \in FetchOutcomes :
       /\ nbars' = fetch_15min_data(n)
       /\ pc' = IF fetch_15min_data(n) = 0 THEN "sleep60" ELSE "kdj"
  /\ UNCHANGED <<exitCode, buying_power, latest_kdj, current_position, qres,
                 pos, orders, signal, quote, slept, config, api_called, lib,
                 kdj_len, apiRes, callRet, opened, today, end_date, start_date>>
  /\ UNCHANGED wsVars

\* kdj = calculate_kdj(data), the length test and latest_kdj = kdj.iloc[-1]
CalculateKdj ==
  /\ pc = "kdj"
  /\ \E l \in LibOutcomes :
       /\ lib' = l
       /\ kdj_len' = calculate_kdj(nbars, l)
       /\ IF calculate_kdj(nbars, l) < 1
          THEN pc' = "sleep60" /\ UNCHANGED latest_kdj
          ELSE /\ pc' = "positions"
               /\ \E k \in latest_values(calculate_kdj(nbars, l)) :
                    latest_kdj' = k
  /\ UNCHANGED <<exitCode, buying_power, nbars, current_position, qres, pos,
                 orders, signal, quote, slept, config, api_called, apiRes,
                 callRet, opened, today, end_date, start_date>>
  /\ UNCHANGED wsVars

\* current_position = None, then the try / except around api.list_positions()
ListPositions ==
  /\ pc = "positions"
  /\ \E r \in QueryOutcomes :
       /\ (r = "err404" => ~pos)
       /\ qres' = r
       /\ current_position' = position_lookup(r, pos)
  /\ pc' = "decide"
  /\ UNCHANGED <<exitCode, buying_power, nbars, latest_kdj, pos, orders,
                 signal, quote, slept, config, api_called, lib, kdj_len,
                 apiRes, callRet, opened, today, end_date, start_date>>
  /\ UNCHANGED wsVars

\* the decision rule with the place_order / close_position call of its branch
Decide ==
  /\ pc = "decide"
  /\ signal' = decision(latest_kdj, current_position)
  /\ IF decision(latest_kdj, current_position) = "ENTER"
     THEN \E q \in QuoteOutcomes, s \in SubmitOutcomes :
            LET r == enter_order(buying_power, q, s) IN
              /\ (q # "quote") => (s = "raised")
              /\ quote' = q
              /\ orders' = r.submitted
              /\ apiRes' = IF r.submitted # <<>> THEN s ELSE "none"
              /\ callRet' = IF r.ret THEN "True" ELSE "False"
              /\ pos' = (pos \/ (r.submitted # <<>> /\ s = "accepted"))
              /\ opened' = (opened \/ (r.submitted # <<>> /\ s = "accepted"))
     ELSE IF decision(latest_kdj, current_position) = "EXIT"
     THEN \E c \in CloseOutcomes :
            LET r == exit_order(c) IN
              /\ (c = "closed") => pos
              /\ (c = "notexist") => ~pos
              /\ quote' = quote
              /\ orders' = r.submitted
              /\ apiRes' = IF r.submitted # <<>> THEN c ELSE "none"
              /\ callRet' = IF r.ret THEN "True" ELSE "False"
              /\ pos' = IF r.submitted # <<>> /\ c = "closed" THEN FALSE ELSE pos
              /\ opened' = IF r.submitted # <<>> /\ c = "closed"
                           THEN FALSE ELSE opened
     ELSE /\ orders' = <<>>
          /\ UNCHANGED <<pos, quote, apiRes, callRet, opened>>
  /\ pc' = "sleep15"
  /\ UNCHANGED <<exitCode, buying_power, nbars, latest_kdj, current_position,
                 qres, slept, config, api_called, lib, kdj_len, today,
                 end_date, start_date>>
  /\ UNCHANGED wsVars

\* the locals of an iteration are dead once it ends: every one of them is
\* assigned again before it is read
NextIteration ==
  /\ pc' = "account"
  /\ buying_power' = 0
  /\ nbars' = 0
  /\ latest_kdj' = 0
  /\ current_position' = "None"
  /\ qres' = "none"
  /\ orders' = <<>>
  /\ signal' = "none"
  /\ quote' = "none"
  /\ lib' = "none"
  /\ kdj_len' = 0
  /\ apiRes' = "none"
  /\ callRet' = "none"
  /\ UNCHANGED <<exitCode, pos, config, api_called, opened, today, end_date,
                 start_date>>

\* time.sleep(15 * 60) at the end of a completed cycle
Sleep15 ==
  /\ pc = "sleep15"
  /\ slept' = PollInterval
  /\ NextIteration
  /\ UNCHANGED wsVars

\* the abort path sleeping the full interval
Sleep60_long ==
  /\ pc = "sleep60"
  /\ slept' = PollInterval
  /\ NextIteration
  /\ UNCHANGED wsVars

\* time.sleep(60) of an aborted cycle
Sleep60 ==
  /\ pc = "sleep60"
  /\ slept' = ShortBackoff
  /\ NextIteration
  /\ UNCHANGED wsVars

\* the date advances while the process runs
DayPasses ==
  /\ today < MaxDay
  /\ pc \notin {"start", "thread_start", "exited"}
  /\ today' = today + 1
  /\ UNCHANGED <<pc, exitCode, buying_power, nbars, latest_kdj,
                 current_position, qres, pos, orders, signal, quote, slept,
                 config, api_called, lib, kdj_len, apiRes, callRet, opened,
                 end_date, start_date>>
  /\ UNCHANGED wsVars

\* the position goes away on the exchange between a cycle's query and its
\* close: the 404 'position does not exist' that close_position expects
PositionGone ==
  /\ pc = "decide"
  /\ pos
  /\ pos' = FALSE
  /\ opened' = FALSE
  /\ UNCHANGED <<pc, exitCode, buying_power, nbars, latest_kdj,
                 current_position, qres, orders, signal, quote, slept, config,
                 api_called, lib, kdj_len, apiRes, callRet, today, end_date,
                 start_date>>
  /\ UNCHANGED wsVars

PollLoop ==
  \/ GetAccount
  \/ FetchData
  \/ CalculateKdj
  \/ ListPositions
  \/ Decide
  \/ Sleep15
  \/ Sleep60

\* -------------------------------------------------------- stream messages
\* A text frame: what json.loads makes of it (top) and, for a non-empty
\* array, its first element (el).
NonArrTops == {"invalid", "null", "zero", "number", "emptystr", "str_noT",
               "str_T", "emptyobj", "obj", "emptyarr"}
DefaultEl == [kind |-> "nondict", hasT |-> FALSE, T |-> "none",
              msg |-> "absent", order |-> "absent"]
Elems ==
  {DefaultEl}
  \cup {[kind |-> "dict", hasT |-> FALSE, T |-> "none", msg |-> mm,
         order |-> "absent"] : mm \in {"absent", "connected", "other"}}
  \cup {[kind |-> "dict", hasT |-> TRUE, T |-> t, msg |-> "absent",
         order |-> "absent"] : t \in {"trade_update", "q", "s", "success", "zz"}}
  \cup {[kind |-> "dict", hasT |-> TRUE, T |-> "trade_update", msg |-> "absent",
         order |-> o] : o \in {"dict", "null"}}
Messages ==
  {[top |-> t, el |-> DefaultEl] : t \in NonArrTops}
  \cup {[top |-> "arr", el |-> e] : e \in Elems}

\* Python truth value of the parsed frame
Falsy(m) == m.top \in {"null", "zero", "emptystr", "emptyobj", "emptyarr"}

\* the two sends in the other order
send_pair_subscribe_first(sa, ss) ==
  IF ~ss THEN [exc |-> TRUE, sends |-> <<>>]
  ELSE IF ~sa THEN [exc |-> TRUE, sends |-> <<"subscribe">>]
  ELSE [exc |-> FALSE, sends |-> <<"subscribe", "auth">>]

\* ws.send(auth) then ws.send(subscribe); a send that raises ends the pair
send_pair(sa, ss) ==
  IF ~sa THEN [exc |-> TRUE, sends |-> <<>>]
  ELSE IF ~ss THEN [exc |-> TRUE, sends |-> <<"auth">>]
  ELSE [exc |-> FALSE, sends |-> <<"auth", "subscribe">>]

Raised == [exc |-> TRUE, confirmed |-> FALSE, sends |-> <<>>]
Quiet == [exc |-> FALSE, confirmed |-> FALSE, sends |-> <<>>]

\* the statements inside the try of on_message
on_message_body(m, sa, ss) ==
  IF m.top = "invalid" THEN Raised                       \* json.loads
  ELSE IF Falsy(m) THEN Raised                           \* data[0] of an empty value
  ELSE IF m.top \in {"number", "obj"} THEN Raised        \* data[0]
  ELSE IF m.top = "str_noT" THEN Raised                  \* str has no .get
  ELSE IF m.top = "str_T" THEN Raised                    \* 'T'['T']
  ELSE IF m.el.kind = "nondict" THEN Raised              \* 'T' in 1
  ELSE IF ~m.el.hasT
       THEN IF m.el.msg = "connected"
            THEN [exc |-> send_pair(sa, ss).exc, confirmed |-> TRUE,
                  sends |-> send_pair(sa, ss).sends]
            ELSE Quiet
  ELSE IF m.el.T = "trade_update"
       THEN IF m.el.order = "null" THEN Raised ELSE Quiet
  ELSE Quiet

\* the body without the enclosing try / except
on_message_no_except(m, sa, ss) ==
  LET b == on_message_body(m, sa, ss) IN
    [escaped |-> b.exc, caught |-> FALSE, confirmed |-> b.confirmed,
     sends |-> b.sends, closes |-> FALSE]

\* the quote branch with its stop-loss active: close_position on a quote
on_message_stop_loss(m, sa, ss) ==
  LET b == on_message_body(m, sa, ss) IN
    [escaped |-> FALSE, caught |-> b.exc, confirmed |-> b.confirmed,
     sends |-> b.sends,
     closes |-> (m.top = "arr" /\ m.el.kind = "dict" /\ m.el.hasT
                 /\ m.el.T = "q")]

\* on_message: the body inside try / except Exception; closes tells whether
\* the handler calls close_position (the quote branch is a bare pass)
on_message(m, sa, ss) ==
  LET b == on_message_body(m, sa, ss) IN
    [escaped |-> FALSE, caught |-> b.exc, confirmed |-> b.confirmed,
     sends |-> b.sends, closes |-> FALSE]

\* on_open: messages sent when the transport opens
on_open(sa, ss) == send_pair(sa, ss).sends

\* an on_error that reconnects as well
on_error_reconnects(n) == n + 1

\* on_error only logs: the number of reconnect calls is as before
on_error(n) == n

\* asyncio.run called in a thread whose event loop is running raises
asyncio_run(running) == IF running THEN "RuntimeError" ELSE "run"

\* ---------------------------------------------------------- listener thread

\* run_forever: the transport opens, on_open is called
ConnectOpen ==
  /\ lstate = "CONNECTING"
  /\ \E sa \in BOOLEAN, ss \in BOOLEAN : connLog' = on_open(sa, ss)
  /\ lstate' = "OPEN"
  /\ UNCHANGED <<loop_running, conns, disconnects, reconnects, hres, closeWhy>>
  /\ UNCHANGED pollVars

\* run_forever: a frame arrives, on_message is called
OnMessage ==
  /\ lstate = "OPEN"
  /\ \E m \in Messages, sa \in BOOLEAN, ss \in BOOLEAN :
       \* ws.send is reached by the 'connected' frame only
       /\ (m.el.msg # "connected") => (sa /\ ss)
       /\ LET r == on_message(m, sa, ss)
              add == (IF r.confirmed THEN <<"confirmed">> ELSE <<>>) \o r.sends
          IN /\ Len(connLog) + Len(add) <= MaxLog
             /\ connLog' = connLog \o add
             /\ hres' = IF r.escaped THEN "escaped"
                        ELSE IF r.caught THEN "caught" ELSE "returned"
             /\ pos' = IF r.closes THEN FALSE ELSE pos
             /\ opened' = IF r.closes THEN FALSE ELSE opened
  /\ UNCHANGED <<lstate, loop_running, conns, disconnects, reconnects, closeWhy>>
  /\ UNCHANGED <<pc, exitCode, buying_power, nbars, latest_kdj,
                 current_position, qres, orders, signal, quote, slept, config,
                 api_called, lib, kdj_len, apiRes, callRet, today, end_date,
                 start_date>>

\* first half of on_close: log, then time.sleep(5)
on_close_sleep ==
  /\ lstate' = "DISCONNECTED"
  /\ conns' = conns - 1
  /\ disconnects' = disconnects + 1
  /\ connLog' = <<>>
  /\ hres' = "none"

\* run_forever ends the connection: a connect failure, a read error or a
\* ping timeout calls on_error and then on_close, a close by the peer on_close
Disconnect ==
  /\ lstate \in {"CONNECTING", "OPEN"}
  /\ disconnects < MaxDisconnects
  /\ \E why \in {"error", "ping_timeout", "close"} :
       /\ (why = "close") => lstate = "OPEN"
       /\ closeWhy' = why
       /\ reconnects' = IF why = "close" THEN reconnects ELSE on_error(reconnects)
  /\ on_close_sleep
  /\ UNCHANGED loop_running
  /\ UNCHANGED pollVars

\* the failed reconnect ending the process instead of the thread
Reconnect_exits ==
  /\ lstate = "DISCONNECTED"
  /\ reconnects' = reconnects + 1
  /\ lstate' = "DEAD"
  /\ loop_running' = FALSE
  /\ pc' = "exited"
  /\ exitCode' = 1
  /\ UNCHANGED <<buying_power, nbars, latest_kdj, current_position, qres, pos,
                 orders, signal, quote, slept, config, api_called, lib,
                 kdj_len, apiRes, callRet, opened, today, end_date, start_date>>
  /\ UNCHANGED <<conns, disconnects, connLog, hres, closeWhy>>

\* second half of on_close: asyncio.run(websocket_stream(...)) after the sleep
Reconnect ==
  /\ lstate = "DISCONNECTED"
  /\ reconnects' = reconnects + 1
  /\ IF asyncio_run(loop_running) = "run"
     THEN lstate' = "CONNECTING" /\ conns' = conns + 1 /\ UNCHANGED loop_running
     ELSE lstate' = "DEAD" /\ conns' = conns /\ loop_running' = FALSE
  /\ UNCHANGED <<disconnects, connLog, hres, closeWhy>>
  /\ UNCHANGED pollVars

Listener ==
  \/ ConnectOpen
  \/ OnMessage
  \/ Disconnect
  \/ Reconnect

\* ------------------------------------------------------------ specification

Init ==
  /\ pc = "start"
  /\ exitCode = -1
  /\ buying_power = 0
  /\ nbars = 0
  /\ latest_kdj = 0
  /\ current_position = "None"
  /\ qres = "none"
  /\ pos \in BOOLEAN
  /\ orders = <<>>
  /\ signal = "none"
  /\ quote = "none"
  /\ slept = 0
  /\ config = "none"
  /\ api_called = FALSE
  /\ lib = "none"
  /\ kdj_len = 0
  /\ apiRes = "none"
  /\ callRet = "none"
  /\ opened = FALSE
  /\ today = 0
  /\ end_date = 0
  /\ start_date = 0
  /\ lstate = "NOT_STARTED"
  /\ loop_running = FALSE
  /\ conns = 0
  /\ disconnects = 0
  /\ reconnects = 0
  /\ connLog = <<>>
  /\ hres = "none"
  /\ closeWhy = "none"

Next ==
  \/ Startup
  \/ StartListener
  \/ GetAccount
  \/ FetchData
  \/ CalculateKdj
  \/ ListPositions
  \/ Decide
  \/ Sleep15
  \/ Sleep60
  \/ DayPasses
  \/ PositionGone
  \/ ConnectOpen
  \/ OnMessage
  \/ Disconnect
  \/ Reconnect

Spec == Init /\ [][Next]_vars

\* both threads keep being scheduled
FairSpec == Spec /\ WF_vars(PollLoop) /\ WF_vars(Listener)

TypeOK ==
  /\ pc \in {"start", "thread_start", "account", "fetch", "kdj", "positions",
             "decide", "sleep15", "sleep60", "exited"}
  /\ lstate \in {"NOT_STARTED", "CONNECTING", "OPEN", "DISCONNECTED", "DEAD"}
  /\ current_position \in {"None", "Position"}
  /\ Len(connLog) <= MaxLog
  /\ Len(orders) <= 1

\* ------------------------------------------------------------- properties

HasOp(o) == \E i \in DOMAIN orders : orders[i].op = o
BuyOrder(n) == [op |-> "buy", notional |-> n]
CloseOrder == [op |-> "close", notional |-> NoNotional]
\* the decision step of the current cycle has run
Decided == pc = "sleep15"
\* list_positions answered, with a list or with 'not found'
QueryAnswered == qres \in {"ok", "err404"}

\* C1: in a cycle, whatever the latest K, a decision taken with no position
\* found for the symbol issues no close (never EXIT), and a decision taken with
\* a position found issues no buy (never ENTER).
C1_DecisionRespectsPosition ==
  Decided =>
    /\ (current_position = "None" => (signal # "EXIT" /\ ~HasOp("close")))
    /\ (current_position = "Position" => (signal # "ENTER" /\ ~HasOp("buy")))

C1_Witness ==
  /\ Decided
  /\ current_position = "Position"
  /\ Lt(latest_kdj, KBuy)
  /\ signal = "HOLD"
  /\ orders = <<>>

\* C2: a cycle whose position query failed with something other than
\* 'not found' ends in HOLD with no buy and no close submitted, whatever K is.
C2_FailedQueryHolds ==
  (Decided /\ qres \in {"apierr", "exc"}) => (signal = "HOLD" /\ orders = <<>>)

\* C3: a disconnected listener always eventually starts a new connection
\* attempt, after every disconnection.
C3_AlwaysReconnects == (lstate = "DISCONNECTED") ~> (lstate = "CONNECTING")

\* C4: every disconnection is followed by exactly one reconnect call (one is
\* pending while on_close sleeps, none is made twice), and the listener never
\* has more than one connection live or being established.
C4_OneReconnectOneConnection ==
  /\ conns \in {0, 1}
  /\ (lstate \in {"CONNECTING", "OPEN"} => (conns = 1 /\ reconnects = disconnects))
  /\ (lstate = "DISCONNECTED" => (conns = 0 /\ reconnects + 1 = disconnects))
  /\ (lstate \in {"DEAD", "NOT_STARTED"} => (conns = 0 /\ reconnects = disconnects))

C4_Witness ==
  /\ closeWhy = "error"
  /\ disconnects = 1
  /\ reconnects = 1
  /\ lstate = "DEAD"

\* C5 as stated: on a connection the subscribe request is sent only after the
\* connection-confirmation message has been received on that connection.
C5_SubscribeAfterConfirmation ==
  \A i \in DOMAIN connLog :
    connLog[i] = "subscribe" => \E j \in 1..(i - 1) : connLog[j] = "confirmed"

\* C5 amended: on a connection the subscribe request is only ever sent
\* directly after the credentials, never before them.
C5_SubscribeAfterAuth ==
  \A i \in DOMAIN connLog :
    connLog[i] = "subscribe" => (i > 1 /\ connLog[i - 1] = "auth")

C5_Witness ==
  /\ lstate = "OPEN"
  /\ connLog = <<"auth", "subscribe">>

\* C6: handling a stream message, whatever its content, raises nothing to the
\* transport and leaves the connection open as it was.
C6_HandlerNeverRaises ==
  [][OnMessage => (hres' # "escaped" /\ lstate' = "OPEN" /\ conns' = conns)]_vars

C6_Witness ==
  /\ lstate = "OPEN"
  /\ hres = "caught"

\* C7: while the listener is disconnected, sleeping before its reconnect or
\* dead, the process is alive and the poll loop can take its next step.
C7_PollLoopNeverBlocked ==
  (lstate \in {"DISCONNECTED", "DEAD"}) =>
    (pc # "exited" /\ exitCode = -1 /\ ENABLED PollLoop)

C7_Witness ==
  /\ lstate = "DEAD"
  /\ pc = "account"
  /\ slept = PollInterval

\* C8 as stated: a cycle with K < 20 and no position open submits exactly one
\* market buy order whose notional is the buying power read in that cycle.
C8_ExactlyOneBuy ==
  (Decided /\ QueryAnswered /\ current_position = "None" /\ Lt(latest_kdj, KBuy))
    => orders = <<BuyOrder(buying_power)>>

\* C8 amended: such a cycle takes the ENTER branch and submits exactly one
\* buy order with that notional when the latest-quote request returned a quote
\* for the symbol, and no order at all when it did not.
C8_OneBuyWhenQuoted ==
  (Decided /\ QueryAnswered /\ current_position = "None" /\ Lt(latest_kdj, KBuy))
    => /\ signal = "ENTER"
       /\ quote = "quote" => orders = <<BuyOrder(buying_power)>>
       /\ quote # "quote" => orders = <<>>

C8_Witness ==
  /\ Decided
  /\ qres = "ok"
  /\ latest_kdj = 15
  /\ buying_power = 1000
  /\ orders = <<BuyOrder(1000)>>

\* C9: a cycle with K > 80 and a position found for the symbol issues exactly
\* one close of the whole position and no buy.
C9_ExactlyOneClose ==
  (Decided /\ current_position = "Position" /\ Gt(latest_kdj, KSell))
    => (signal = "EXIT" /\ orders = <<CloseOrder>>)

C9_Witness ==
  /\ Decided
  /\ latest_kdj = 85
  /\ current_position = "Position"
  /\ orders = <<CloseOrder>>

\* C10: a cycle matching neither (K < 20, no position) nor (K > 80, position)
\* issues no order and logs HOLD, the boundaries K = 20 and K = 80 included.
C10_OtherwiseHold ==
  (/\ Decided
   /\ ~(Lt(latest_kdj, KBuy) /\ current_position = "None")
   /\ ~(Gt(latest_kdj, KSell) /\ current_position = "Position"))
    => (signal = "HOLD" /\ orders = <<>>)

C10_Witness ==
  /\ Decided
  /\ latest_kdj = KBuy
  /\ current_position = "None"
  /\ signal = "HOLD"
  /\ orders = <<>>

\* a cycle has ended, completed or aborted
CycleEnded == pc \in {"sleep15", "sleep60"}
\* the main thread is inside the while True loop
InLoop == pc \in {"account", "fetch", "kdj", "positions", "decide", "sleep15",
                  "sleep60"}
\* the cycle is past the indicator step
Proceeded == pc \in {"positions", "decide", "sleep15"}

\* C11: a close answered 'position does not exist' returns success exactly
\* like a normal close, and after either the position is absent.
C11_CloseIdempotent ==
  (Decided /\ signal = "EXIT" /\ apiRes \in {"closed", "notexist"})
    => (callRet = "True" /\ ~pos /\ orders = <<CloseOrder>>)

C11_Witness ==
  /\ Decided
  /\ signal = "EXIT"
  /\ apiRes = "notexist"
  /\ callRet = "True"
  /\ ~pos

\* C12: when load_config fails the process has exited with status 1, and no
\* listener was started, no exchange call made and no order submitted; nothing
\* runs after that.
C12_ConfigFailureIsFatal ==
  (config \notin {"none", "ok"}) =>
    /\ pc = "exited"
    /\ exitCode = 1
    /\ lstate = "NOT_STARTED"
    /\ conns = 0
    /\ ~api_called
    /\ orders = <<>>
    /\ ~ENABLED Next

C12_Witness ==
  /\ config = "nokey"
  /\ pc = "exited"
  /\ exitCode = 1

\* C13: calculate_kdj returns the empty frame for fewer than 9 bars and when
\* ta.kdj does not deliver the K, D, J columns, and its result is never longer
\* than the bar frame.
C13_NoResultOrFullSeries ==
  (lib # "none") =>
    /\ (nbars < KdjLength \/ lib # "kdj_cols") => kdj_len = 0
    /\ kdj_len <= nbars
    /\ kdj_len \in {0, nbars}

C13_Witness ==
  /\ lib = "kdj_cols"
  /\ nbars = 8
  /\ kdj_len = 0
  /\ pc = "sleep60"

\* C14: an aborted cycle has made no position query and submitted no order,
\* its wait is the 60-second one, and it is followed by the account read; a
\* cycle goes past the indicator step only with the account read, the bars and
\* the indicator all obtained.
C14_AbortedCycleBacksOff ==
  [][/\ (pc = "sleep60" => (qres = "none" /\ orders = <<>> /\ signal = "none"))
     /\ ((pc = "sleep60" /\ pc' # pc) => (pc' = "account" /\ slept' = ShortBackoff))
     /\ ((pc \in {"account", "fetch", "kdj"} /\ pc' # pc) =>
           IF pc = "account" /\ buying_power' \in BuyingPowers THEN pc' = "fetch"
           ELSE IF pc = "fetch" /\ nbars' > 0 THEN pc' = "kdj"
           ELSE IF pc = "kdj" /\ kdj_len' >= 1 THEN pc' = "positions"
           ELSE pc' = "sleep60")]_vars

C14_Witness ==
  /\ pc = "account"
  /\ slept = ShortBackoff

\* C15 as stated: a cycle goes on to the position query and the decision only
\* when the indicator produced at least 2 valid points.
C15_NeedsTwoPoints == Proceeded => kdj_valid(kdj_len) >= 2

\* C15 amended: a cycle goes on exactly when the indicator frame has at least
\* one row, and with a latest K that is not a number its decision is HOLD
\* with no order.
C15_NeedsOneRow ==
  /\ Proceeded => kdj_len >= 1
  /\ (pc = "sleep60" /\ lib # "none") => kdj_len = 0
  /\ (Decided /\ kdj_valid(kdj_len) = 0) => (signal = "HOLD" /\ orders = <<>>)

C15_Witness ==
  /\ Decided
  /\ kdj_valid(kdj_len) = 1
  /\ signal = "ENTER"
  /\ orders # <<>>

\* C16: whenever a cycle requests bars, the window it passes is the trailing
\* 30 days ending at the date of that cycle.
C16_WindowTrailsToday ==
  [][(pc = "fetch" /\ pc' # pc)
       => (end_date' = today /\ start_date' = today - WindowDays)]_vars

C18_OneOrderPerCycle ==
  [][/\ Len(orders) <= 1
     /\ ((pc = "sleep15" /\ pc' # pc) => (pc' = "account" /\ slept' = PollInterval))
     /\ ((pc = "decide" /\ pc' # pc) => pc' = "sleep15")]_vars

C18_Witness ==
  /\ Decided
  /\ apiRes = "raised"
  /\ callRet = "False"
  /\ orders = <<BuyOrder(buying_power)>>

\* C19: no step of the listener, whatever the message, submits an order,
\* closes a position or changes a variable of the poll loop.
C19_ListenerObservesOnly == [][Listener => UNCHANGED pollVars]_vars

C19_Witness ==
  /\ lstate = "OPEN"
  /\ hres = "returned"
  /\ Decided
  /\ pos
  /\ opened

\* C20: no buy order is submitted while a position opened by an earlier
\* accepted buy is still open.
C20_NoBuyWhileOpen ==
  [][(pc = "decide" /\ \E i \in DOMAIN orders' : orders'[i].op = "buy")
       => ~(pos /\ opened)]_vars

====
